---------------------------- MODULE Spec2Model ----------------------------
(***************************************************************************)
(* A model of aws-embedded-metrics: the metric aggregation model           *)
(* (src/log.rs), the serializer (src/serialize.rs), the scoped logger      *)
(* (src/log.rs), the environment detector (src/env.rs) and the agent sink  *)
(* (src/sink.rs).                                                          *)
(*                                                                         *)
(* Five specifications share the variables:                                *)
(*   Spec       one metric_scope call: the closure's calls on the          *)
(*              MetricLogger, explicit flushes, and the drop at scope exit *)
(*   SpecCtx    one MetricContext built with its own methods and then      *)
(*              handed to Log::serialize (as the benches and tests do),    *)
(*              and an equal context serialized again                      *)
(*   SpecUnit   metrics put with every Unit, then serialized               *)
(*   SpecEC2    one EC2 environment: probe and configure calls             *)
(*   SpecAgent  Agent::create over endpoint configuration strings, then    *)
(*              accept calls on the agent                                  *)
(*                                                                         *)
(* Encodings.  Option<T> is a sequence of length 0 (None) or 1 (Some).     *)
(* A serde_json Value is a pair <<tag, v>>: <<"num", n>>, <<"str", s>>,    *)
(* <<"arr", <<n1, ..., nk>>>>.  A HashMap or BTreeMap is a function; the   *)
(* iteration order of a HashMap is not a function of its contents, so it   *)
(* is drawn when the map is iterated.                                      *)
(***************************************************************************)
EXTENDS Integers, Sequences, FiniteSets, TLC

VARIABLES
    pc,         \* where the modelled run is: "scope", "returned", "unwound",
                \* "ctx", "serialized", "agent", "created"
    context,    \* the MetricContext (of the logger, or the standalone one)
    nMut,       \* number of mutating calls made on the context so far
    callLog,    \* history: the put_metric calls, in call order
    written,    \* history: per put_dimensions call, the keys in the order
                \* the dimensions! macro was given them
    output,     \* Option: the payload Log::serialize built
    output2,    \* Option: the string Log::serialize returned for a second,
                \* equal context
    nsLog,      \* history: the arguments of the set_namespace calls
    iterOrder,  \* history: the HashMap iteration orders serialize met
    stdout,     \* lines printed by MetricLogger::flush
    flushLog,   \* history: per run of flush, the value of nMut at that time
    sinkLog,    \* payloads accepted by a sink on behalf of the logger
    osEnv,      \* the process environment variables
    lastEnv,    \* Option: what the last Detector::get returned; the EC2
                \* environment probed in SpecEC2
    probes,     \* history: the probes the last Detector::get ran; all
                \* probes of the EC2 environment in SpecEC2
    endpointCfg,\* Option: the configured agent endpoint string
    agent,      \* Option: result of Agent::create
    accepted,   \* history: the contexts passed to Agent::accept, each with
                \* the HashMap iteration orders its serialization met
    wire        \* the write attempts made on the agent's transport

vars == <<pc, context, nMut, callLog, written, output, output2, nsLog,
          iterOrder, stdout, flushLog, sinkLog, osEnv, lastEnv, probes,
          endpointCfg, agent, accepted, wire>>

ctxVars == <<context, nMut, callLog, written, output, output2, nsLog, iterOrder>>
loggerVars == <<stdout, flushLog, sinkLog, lastEnv, probes>>
agentVars == <<endpointCfg, agent, accepted, wire>>

----------------------------------------------------------------------------
(* Bounds of the model *)

\* mutating calls on a standalone MetricContext before it is serialized
MaxCalls == 3
\* mutating calls the closure of metric_scope makes on the logger
MaxScopeCalls == 2
\* explicit MetricLogger::flush calls the closure makes
MaxExplicitFlush == 2
\* number of keys of the large dimension-set
BigDimLen == 12
\* HashMaps of at most this many keys are iterated in every possible order
MaxPermLen == 3

\* probe and configure calls on one EC2 environment
MaxProbes == 3
MaxConfigure == 2

\* accept calls on one Agent
MaxAccepts == 2

(* Program constants *)

MAX_DIMENSIONS == 9
DEFAULT_NAMEPSACE == "aws-embedded-metrics"
DEFAULT_AGENT_PORT == 25888

----------------------------------------------------------------------------
(* Generic helpers *)

None == <<>>
Some(x) == <<x>>

EmptyMap == [k \in {} |-> <<>>]

Min(a, b) == IF a <= b THEN a ELSE b

Range(s) == {s[i] : i \in 1..Len(s)}

\* s.iter().take(n)
Take(s, n) == SubSeq(s, 1, Min(n, Len(s)))

\* HashMap::insert / BTreeMap::insert: the value under k is replaced
Insert(map, k, v) ==
    [x \in (DOMAIN map) \cup {k} |-> IF x = k THEN v ELSE map[x]]

IsInjective(s) == \A i, j \in 1..Len(s) : i # j => s[i] # s[j]

\* every sequence that lists each element of S once
Perms(S) == {s \in [1..Cardinality(S) -> S] : IsInjective(s)}

Reverse(s) == [i \in 1..Len(s) |-> s[Len(s) + 1 - i]]

RotateLeft(s) == [i \in 1..Len(s) |-> s[(i % Len(s)) + 1]]

\* the keys of a sequence of <<key, value>> pairs, first occurrences only
RECURSIVE DistinctKeys(_)
DistinctKeys(pairs) ==
    IF pairs = <<>> THEN <<>>
    ELSE LET front == DistinctKeys(SubSeq(pairs, 1, Len(pairs) - 1))
             k == pairs[Len(pairs)][1]
         IN  IF k \in Range(front) THEN front ELSE Append(front, k)


----------------------------------------------------------------------------
(* src/log.rs: Unit, MetricValues, MetricContext *)

\* the variants of enum Unit, in declaration order
UnitVariants ==
    <<"Seconds", "Microseconds", "Milliseconds", "Bytes", "Kilobytes",
      "Megabytes", "Gigabytes", "Terabytes", "Bits", "Kilobits", "Megabits",
      "Gigabits", "Terabits", "Percent", "Count", "BytesPerSecond",
      "KilobytesPerSecond", "MegabytesPerSecond", "GigabytesPerSecond",
      "TerabytesPerSecond", "BitsPerSecond", "KilobitsPerSecond",
      "MegabitsPerSecond", "GigabitsPerSecond", "TerabitsPerSecond",
      "CountPerSecond", "None">>

unit_variant_name(unit) == unit

\* #[derive(Serialize)] on Unit: the variant name, or its serde(rename)
UnitString(unit) ==
    CASE unit = "BytesPerSecond"     -> "Bytes/Second"
      [] unit = "KilobytesPerSecond" -> "Kilobytes/Second"
      [] unit = "MegabytesPerSecond" -> "Megabytes/Second"
      [] unit = "GigabytesPerSecond" -> "Gigabytes/Second"
      [] unit = "TerabytesPerSecond" -> "Terabytes/Second"
      [] unit = "BitsPerSecond"      -> "Bits/Second"
      [] unit = "KilobitsPerSecond"  -> "Kilobits/Second"
      [] unit = "MegabitsPerSecond"  -> "Megabits/Second"
      [] unit = "GigabitsPerSecond"  -> "Gigabits/Second"
      [] unit = "TerabitsPerSecond"  -> "Terabits/Second"
      [] unit = "CountPerSecond"     -> "Count/Second"
      [] OTHER                       -> unit

\* impl Default for Unit
Unit_default == "None"

\* MetricValues::add
MetricValues_add(mv, value) == [mv EXCEPT !.values = Append(@, value)]

\* UNIX_EPOCH.elapsed().unwrap_or_default().as_millis(): the clock reading,
\* 0 when the clock is before the epoch
Timestamps == {0, 1700}

\* impl Default for MetricContext
MetricContext_default(ts) ==
    [namespace  |-> DEFAULT_NAMEPSACE,
     meta       |-> [k \in {"Timestamp"} |-> <<"num", ts>>],
     properties |-> EmptyMap,
     dimensions |-> <<>>,
     metrics    |-> EmptyMap]

set_namespace_if_default(ctx, namespace) ==
    IF ctx.namespace = DEFAULT_NAMEPSACE
    THEN [ctx EXCEPT !.namespace = namespace]
    ELSE ctx

\* MetricContext::set_namespace
MetricContext_set_namespace(ctx, namespace) ==
    [ctx EXCEPT !.namespace = namespace]

\* MetricContext::set_property
MetricContext_set_property(ctx, name, value) ==
    [ctx EXCEPT !.properties = Insert(@, name, value)]

put_dimensions_merging(ctx, dims) ==
    IF ctx.dimensions = <<>>
    THEN [ctx EXCEPT !.dimensions = <<dims>>]
    ELSE [ctx EXCEPT !.dimensions[Len(ctx.dimensions)] =
            [k \in (DOMAIN @) \cup (DOMAIN dims) |->
                IF k \in DOMAIN dims THEN dims[k] ELSE @[k]]]

\* MetricContext::put_dimensions
MetricContext_put_dimensions(ctx, dims) ==
    [ctx EXCEPT !.dimensions = Append(@, dims)]

put_metric_last_unit(ctx, name, value, unit) ==
    LET old == IF name \in DOMAIN ctx.metrics
               THEN ctx.metrics[name].values ELSE <<>>
    IN  [ctx EXCEPT !.metrics =
            Insert(@, name, [values |-> Append(old, value), unit |-> unit])]

\* MetricContext::put_metric: entry(name).or_insert_with(..).add(value)
MetricContext_put_metric(ctx, name, value, unit) ==
    LET entry == IF name \in DOMAIN ctx.metrics
                 THEN ctx.metrics[name]
                 ELSE [values |-> <<>>, unit |-> unit]
    IN  [ctx EXCEPT !.metrics = Insert(@, name, MetricValues_add(entry, value))]

\* the dimensions! macro (src/lib.rs): a HashMap filled by inserting the
\* written key => value pairs in order
RECURSIVE DimensionsMacro(_)
DimensionsMacro(pairs) ==
    IF pairs = <<>> THEN EmptyMap
    ELSE Insert(DimensionsMacro(SubSeq(pairs, 1, Len(pairs) - 1)),
                pairs[Len(pairs)][1], pairs[Len(pairs)][2])

----------------------------------------------------------------------------
(* Inputs *)

MetricNames == {"foo", "bar"}
Samples == {1, 2}
Units == {"Bytes", "CountPerSecond"}

Namespaces == {"app", "web"}

\* set_property arguments: name and value.into()
PropInputs == {<<"foo", <<"str", "p">>>>, <<"rid", <<"str", "r">>>>}

DimKeyPool ==
    <<"d01", "d02", "d03", "d04", "d05", "d06", "d07", "d08", "d09", "d10",
      "d11", "d12", "d13", "d14", "d15", "d16">>

BigDim == [i \in 1..BigDimLen |-> <<DimKeyPool[i], "v">>]

\* dimensions! invocations: the key => value pairs as written
DimInputs ==
    { << <<"foo", "1">> >>,
      << <<"bar", "2">>, <<"baz", "3">> >>,
      << <<"baz", "4">>, <<"foo", "9">> >>,
      BigDim }

----------------------------------------------------------------------------
(* src/serialize.rs: Log::serialize *)

\* the orders in which a HashMap whose keys were inserted in the order
\* `base` may be iterated: any order for a small map, a sample of the
\* orders for a large one
IterOrders(base) ==
    IF Len(base) <= MaxPermLen
    THEN Perms(Range(base))
    ELSE {base, Reverse(base), RotateLeft(base)}

\* one iteration order per dimension-set, for the sets written as `w`
RECURSIVE OrderChoices(_)
OrderChoices(w) ==
    IF w = <<>> THEN {<<>>}
    ELSE {Append(f, o) : f \in OrderChoices(SubSeq(w, 1, Len(w) - 1)),
                         o \in IterOrders(DistinctKeys(w[Len(w)]))}

append_keeping_old(self, other) ==
    [k \in (DOMAIN self) \cup (DOMAIN other) |->
        IF k \in DOMAIN self THEN self[k] ELSE other[k]]

\* BTreeMap::append: a key of `other` present in `self` is overwritten
BTreeMap_append(self, other) ==
    [k \in (DOMAIN self) \cup (DOMAIN other) |->
        IF k \in DOMAIN other THEN other[k] ELSE self[k]]

all_keys(order) == order

\* dim.keys().take(MAX_DIMENSIONS).collect(), `order` being dim.keys()
DimensionKeys(order) == Take(order, MAX_DIMENSIONS)

\* dim.iter().map(|(key, value)| (key, Value::from(value.clone()))).collect()
DimensionValues(dim) == [k \in DOMAIN dim |-> <<"str", dim[k]>>]

\* the fold over context.dimensions, after its first n sets:
\* (keys, dims) of the closure
RECURSIVE FoldDimensions(_, _, _)
FoldDimensions(dimensions, orders, n) ==
    IF n = 0 THEN [keys |-> <<>>, dims |-> EmptyMap]
    ELSE LET acc == FoldDimensions(dimensions, orders, n - 1)
         IN  [keys |-> Append(acc.keys, DimensionKeys(orders[n])),
              dims |-> BTreeMap_append(acc.dims, DimensionValues(dimensions[n]))]

always_array(values) == <<"arr", values>>

\* the value written under a metric name:
\* if values.len() == 1 { values[0].into() } else { values.to_owned().into() }
MetricTargetValue(values) ==
    IF Len(values) = 1 THEN <<"num", values[1]>> ELSE <<"arr", values>>

\* the fold over context.metrics, after the first n entries in iteration
\* order `order`
RECURSIVE FoldMetrics(_, _, _, _)
FoldMetrics(payload, metrics, order, n) ==
    IF n = 0 THEN payload
    ELSE LET acc == FoldMetrics(payload, metrics, order, n - 1)
             name == order[n]
         IN  [acc EXCEPT
                !.target_values = Insert(@, name, MetricTargetValue(metrics[name].values)),
                !.aws.CloudWatchMetrics[1].Metrics =
                    Append(@, [Name |-> name, Unit |-> UnitString(metrics[name].unit)])]

\* Log::serialize; it.dims[i] is the iteration order of the i-th
\* dimension-set and it.metrics that of context.metrics.  The result is the
\* payload handed to serde_json::to_string, with the field names serde
\* gives it.
Log_serialize(ctx, it) ==
    LET folded == FoldDimensions(ctx.dimensions, it.dims, Len(ctx.dimensions))
        target_values == BTreeMap_append(folded.dims, ctx.properties)
        initial ==
            [aws |-> [CloudWatchMetrics |->
                        <<[Namespace  |-> ctx.namespace,
                           Dimensions |-> folded.keys,
                           Metrics    |-> <<>>]>>,
                      meta |-> ctx.meta],
             target_values |-> target_values]
    IN  FoldMetrics(initial, ctx.metrics, it.metrics, Len(it.metrics))

\* the keys the model uses, in the order of a BTreeMap<&str, _>: by bytes,
\* upper case before lower case
KeyOrder ==
    <<"LogGroupName", "LogStreamName", "RequestId", "Service", "Timestamp",
      "availabilityZone",
      "bar", "baz",
      "d01", "d02", "d03", "d04", "d05", "d06", "d07", "d08", "d09", "d10",
      "d11", "d12", "d13", "d14", "d15", "d16",
      "foo", "imageId", "instanceId", "instanceType", "privateIP", "rid">>

\* the keys of a BTreeMap in the order its iterator yields them
SortedKeys(keys) == SelectSeq(KeyOrder, LAMBDA k : k \in keys)

\* A JSON text is the sequence of the pieces written to the output: the
\* punctuation marks, the contents of string literals and the digits of
\* numbers.

\* a string literal
Quote(str) == <<"\"", str, "\"">>

\* the elements of a JSON array or object, separated by commas
RECURSIVE Join(_)
Join(parts) ==
    IF parts = <<>> THEN <<>>
    ELSE IF Len(parts) = 1 THEN parts[1]
    ELSE parts[1] \o <<",">> \o Join(Tail(parts))

\* a serde_json Value: a number, a string or an array of numbers
Value_to_string(v) ==
    CASE v[1] = "num" -> <<ToString(v[2])>>
      [] v[1] = "str" -> Quote(v[2])
      [] v[1] = "arr" ->
            <<"[">> \o Join([i \in 1..Len(v[2]) |-> <<ToString(v[2][i])>>]) \o <<"]">>

\* the entries of a flattened BTreeMap<&str, Value>, in key order
Map_entries(m) ==
    LET ks == SortedKeys(DOMAIN m)
    IN  [i \in 1..Len(ks) |-> Quote(ks[i]) \o <<":">> \o Value_to_string(m[ks[i]])]

\* struct Metric, rename_all = "PascalCase"
Metric_to_string(metric) ==
    <<"{">> \o Quote("Name") \o <<":">> \o Quote(metric.Name) \o <<",">>
            \o Quote("Unit") \o <<":">> \o Quote(metric.Unit) \o <<"}">>

\* a Vec<&str> of dimension keys
Keys_to_string(keys) ==
    <<"[">> \o Join([i \in 1..Len(keys) |-> Quote(keys[i])]) \o <<"]">>

\* struct MetricDefinition, rename_all = "PascalCase"
MetricDefinition_to_string(def) ==
    <<"{">> \o Quote("Namespace") \o <<":">> \o Quote(def.Namespace) \o <<",">>
            \o Quote("Dimensions") \o <<":", "[">>
            \o Join([i \in 1..Len(def.Dimensions) |-> Keys_to_string(def.Dimensions[i])])
            \o <<"]", ",">>
            \o Quote("Metrics") \o <<":", "[">>
            \o Join([i \in 1..Len(def.Metrics) |-> Metric_to_string(def.Metrics[i])])
            \o <<"]", "}">>

\* struct Metadata: cloud_watch_metrics, then the flattened meta
Metadata_to_string(aws) ==
    <<"{">> \o Join(<< Quote("CloudWatchMetrics") \o <<":", "[">>
                        \o MetricDefinition_to_string(aws.CloudWatchMetrics[1])
                        \o <<"]">> >>
                    \o Map_entries(aws.meta))
            \o <<"}">>

\* serde_json::to_string(&payload): _aws, then the flattened target_values
to_string(payload) ==
    <<"{">> \o Join(<< Quote("_aws") \o <<":">> \o Metadata_to_string(payload.aws) >>
                    \o Map_entries(payload.target_values))
            \o <<"}">>

----------------------------------------------------------------------------
(* SpecCtx: a MetricContext built by its methods, then serialized *)

InitCtx ==
    /\ pc = "ctx"
    /\ \E ts \in Timestamps : context = MetricContext_default(ts)
    /\ nMut = 0
    /\ callLog = <<>>
    /\ written = <<>>
    /\ output = None
    /\ output2 = None
    /\ nsLog = <<>>
    /\ iterOrder = None
    /\ stdout = <<>>
    /\ flushLog = <<>>
    /\ sinkLog = <<>>
    /\ osEnv = EmptyMap
    /\ lastEnv = None
    /\ probes = <<>>
    /\ endpointCfg = None
    /\ agent = None
    /\ accepted = <<>>
    /\ wire = <<>>

SetNamespace ==
    /\ pc = "ctx"
    /\ nMut < MaxCalls
    /\ \E ns \in Namespaces :
        /\ context' = MetricContext_set_namespace(context, ns)
        /\ nsLog' = Append(nsLog, ns)
    /\ nMut' = nMut + 1
    /\ UNCHANGED <<pc, callLog, written, output, output2, iterOrder>>
    /\ UNCHANGED <<loggerVars, osEnv, agentVars>>

SetProperty ==
    /\ pc = "ctx"
    /\ nMut < MaxCalls
    /\ \E p \in PropInputs :
        context' = MetricContext_set_property(context, p[1], p[2])
    /\ nMut' = nMut + 1
    /\ UNCHANGED <<pc, callLog, written, output, output2, nsLog, iterOrder>>
    /\ UNCHANGED <<loggerVars, osEnv, agentVars>>

PutDimensions ==
    /\ pc = "ctx"
    /\ nMut < MaxCalls
    /\ \E pairs \in DimInputs :
        /\ context' = MetricContext_put_dimensions(context, DimensionsMacro(pairs))
        /\ written' = Append(written, pairs)
    /\ nMut' = nMut + 1
    /\ UNCHANGED <<pc, callLog, output, output2, nsLog, iterOrder>>
    /\ UNCHANGED <<loggerVars, osEnv, agentVars>>

PutMetric ==
    /\ pc = "ctx"
    /\ nMut < MaxCalls
    /\ \E name \in MetricNames, value \in Samples, unit \in Units :
        /\ context' = MetricContext_put_metric(context, name, value, unit)
        /\ callLog' = Append(callLog, [name |-> name, value |-> value, unit |-> unit])
    /\ nMut' = nMut + 1
    /\ UNCHANGED <<pc, written, output, output2, nsLog, iterOrder>>
    /\ UNCHANGED <<loggerVars, osEnv, agentVars>>

\* Log.serialize(ctx): the context is moved into the call
Serialize ==
    /\ pc = "ctx"
    /\ \E d \in OrderChoices(written), m \in Perms(DOMAIN context.metrics) :
        LET it == [dims |-> d, metrics |-> m]
        IN  /\ output' = Some(Log_serialize(context, it))
            /\ iterOrder' = Some(it)
    /\ pc' = "serialized"
    /\ UNCHANGED <<context, nMut, callLog, written, output2, nsLog>>
    /\ UNCHANGED <<loggerVars, osEnv, agentVars>>

\* Log.serialize of a second context, equal to the first in every field:
\* its HashMaps are other instances, with hashers of their own
SerializeAgain ==
    /\ pc = "serialized"
    /\ output2 = None
    /\ \E d \in OrderChoices(written), m \in Perms(DOMAIN context.metrics) :
        output2' = Some(to_string(Log_serialize(context, [dims |-> d, metrics |-> m])))
    /\ UNCHANGED <<pc, context, nMut, callLog, written, output, nsLog, iterOrder>>
    /\ UNCHANGED <<loggerVars, osEnv, agentVars>>

NextCtx ==
    \/ SetNamespace
    \/ SetProperty
    \/ PutDimensions
    \/ PutMetric
    \/ Serialize
    \/ SerializeAgain

SpecCtx == InitCtx /\ [][NextCtx]_vars

----------------------------------------------------------------------------
(* Properties of the aggregation model and the serializer (SpecCtx) *)

\* the put_metric calls made under `name`, in call order
CallsFor(name) ==
    LET IsFor(c) == c.name = name
    IN  SelectSeq(callLog, IsFor)

Serialized == pc = "serialized" /\ output # None

Doc == output[1]

Definition == Doc.aws.CloudWatchMetrics[1]

\* the index of the last dimension-set of the context that has key k
LastSetWith(k) ==
    CHOOSE i \in 1..Len(context.dimensions) :
        /\ k \in DOMAIN context.dimensions[i]
        /\ \A j \in (i + 1)..Len(context.dimensions) :
              k \notin DOMAIN context.dimensions[j]

DimensionKeySet ==
    UNION {DOMAIN context.dimensions[i] : i \in 1..Len(context.dimensions)}

\* C4: for any sequence of put_metric calls, the entry of a name holds
\* exactly the values passed under that name, in call order, with the unit
\* of the first call for that name; later unit arguments are ignored and a
\* call changes no entry of another name.
C4_PutMetricAccumulates ==
    /\ DOMAIN context.metrics = {callLog[i].name : i \in 1..Len(callLog)}
    /\ \A name \in DOMAIN context.metrics :
        LET calls == CallsFor(name)
        IN  /\ context.metrics[name].values =
                  [i \in 1..Len(calls) |-> calls[i].value]
            /\ context.metrics[name].unit = calls[1].unit

\* a name was put twice with different units, and another name was put too
C4_Witness ==
    /\ Len(callLog) = 3
    /\ \E name \in DOMAIN context.metrics :
        LET calls == CallsFor(name)
        IN  /\ Len(calls) = 2
            /\ calls[1].unit # calls[2].unit
            /\ calls[1].value # calls[2].value

\* C5: in the output a metric with exactly one sample is written as the
\* bare number, one with two or more samples as the array of its samples in
\* insertion order, and the Metrics list has exactly one {Name, Unit}
\* descriptor per metric name of the context.
C5_ScalarOrArray ==
    Serialized =>
        /\ \A name \in DOMAIN context.metrics :
            LET values == context.metrics[name].values
            IN  /\ Len(values) = 1 => Doc.target_values[name] = <<"num", values[1]>>
                /\ Len(values) >= 2 => Doc.target_values[name] = <<"arr", values>>
        /\ Len(Definition.Metrics) = Cardinality(DOMAIN context.metrics)
        /\ \A name \in DOMAIN context.metrics :
            \E i \in 1..Len(Definition.Metrics) :
                Definition.Metrics[i] =
                    [Name |-> name, Unit |-> UnitString(context.metrics[name].unit)]

\* an output with a one-sample metric and a two-sample metric
C5_Witness ==
    /\ Serialized
    /\ \E a, b \in DOMAIN context.metrics :
        /\ Len(context.metrics[a].values) = 1
        /\ Len(context.metrics[b].values) = 2
        /\ context.metrics[b].values[1] # context.metrics[b].values[2]

\* C6: the flat target values are filled from dimensions, then properties,
\* then metrics, the later contributor winning: a key holds the metric
\* value if it is a metric name, else the property value if it is a
\* property, else the value of the last dimension-set that has it.
C6_MergeOrder ==
    Serialized =>
        /\ DOMAIN Doc.target_values =
              DimensionKeySet \cup (DOMAIN context.properties) \cup (DOMAIN context.metrics)
        /\ \A k \in DOMAIN Doc.target_values :
            IF k \in DOMAIN context.metrics
            THEN LET values == context.metrics[k].values
                 IN  \/ Len(values) = 1 /\ Doc.target_values[k] = <<"num", values[1]>>
                     \/ Len(values) > 1 /\ Doc.target_values[k] = <<"arr", values>>
            ELSE IF k \in DOMAIN context.properties
            THEN Doc.target_values[k] = context.properties[k]
            ELSE Doc.target_values[k] =
                    <<"str", context.dimensions[LastSetWith(k)][k]>>

\* one key is a dimension key, a property and a metric name at once
C6_Witness ==
    /\ Serialized
    /\ \E k \in DOMAIN context.metrics :
        /\ k \in DOMAIN context.properties
        /\ k \in DimensionKeySet

\* the keys of the i-th put_dimensions call, in the order they were written
WrittenKeys(i) == DistinctKeys(written[i])

\* key k of a dimension-set is overridden by a later contributor
Overridden(i, k) ==
    \/ k \in DOMAIN context.properties
    \/ k \in DOMAIN context.metrics
    \/ \E j \in (i + 1)..Len(context.dimensions) : k \in DOMAIN context.dimensions[j]

\* C7 as stated: the entry of a dimension-set of n keys lists exactly the
\* first min(n, 9) keys in the set's original key order, and all n
\* key-value pairs of the set appear in the target values.
C7_FirstNineInOriginalOrder ==
    Serialized =>
        \A i \in 1..Len(context.dimensions) :
            /\ Definition.Dimensions[i] = Take(WrittenKeys(i), MAX_DIMENSIONS)
            /\ \A k \in DOMAIN context.dimensions[i] :
                /\ k \in DOMAIN Doc.target_values
                /\ Doc.target_values[k] = <<"str", context.dimensions[i][k]>>

\* What the code does in place of C7: the entry of a dimension-set of n
\* keys lists exactly min(n, 9) distinct keys of the set, the first in the iteration
\* order of the set's HashMap (not the order the keys were written in);
\* every key of the set is a key of the target values, with the set's value
\* unless a later dimension-set, a property or a metric has the same key.
C7_FirstNineInIterationOrder ==
    Serialized =>
        \A i \in 1..Len(context.dimensions) :
            LET entry == Definition.Dimensions[i]
                dim == context.dimensions[i]
                n == Cardinality(DOMAIN dim)
            IN  /\ Len(entry) = Min(n, MAX_DIMENSIONS)
                /\ IsInjective(entry)
                /\ Range(entry) \subseteq DOMAIN dim
                /\ entry = SubSeq(iterOrder[1].dims[i], 1, Len(entry))
                /\ \A k \in DOMAIN dim :
                    /\ k \in DOMAIN Doc.target_values
                    /\ ~Overridden(i, k) =>
                          Doc.target_values[k] = <<"str", dim[k]>>

\* a set of more than 9 keys was serialized, and the 9 keys listed are not
\* the 9 written first
C7_Witness ==
    /\ Serialized
    /\ \E i \in 1..Len(context.dimensions) :
        /\ Cardinality(DOMAIN context.dimensions[i]) > MAX_DIMENSIONS
        /\ Len(Definition.Dimensions[i]) = MAX_DIMENSIONS
        /\ Range(Definition.Dimensions[i]) #
              Range(Take(WrittenKeys(i), MAX_DIMENSIONS))
        /\ \A k \in DOMAIN context.dimensions[i] :
              Doc.target_values[k] = <<"str", context.dimensions[i][k]>>

\* C8: each put_dimensions call appends one set and changes no earlier one:
\* after k calls the context holds the k sets in call order, the Dimensions
\* array has k entries in that order, entry i made of keys of the i-th set
\* (all of them when the set has at most 9), and the values of all sets are
\* in the target values, a later set overriding an earlier one.
C8_PutDimensionsAppends ==
    /\ Len(context.dimensions) = Len(written)
    /\ \A i \in 1..Len(written) :
        /\ DOMAIN context.dimensions[i] = Range(WrittenKeys(i))
        /\ \A j \in 1..Len(written[i]) :
              context.dimensions[i][written[i][j][1]] = written[i][j][2]
    /\ Serialized =>
        /\ Len(Definition.Dimensions) = Len(written)
        /\ \A i \in 1..Len(written) :
            /\ Range(Definition.Dimensions[i]) \subseteq Range(WrittenKeys(i))
            /\ Len(WrittenKeys(i)) <= MAX_DIMENSIONS =>
                  Range(Definition.Dimensions[i]) = Range(WrittenKeys(i))
        /\ \A k \in DimensionKeySet :
            /\ k \in DOMAIN Doc.target_values
            /\ k \notin (DOMAIN context.properties) \cup (DOMAIN context.metrics) =>
                  Doc.target_values[k] =
                      <<"str", context.dimensions[LastSetWith(k)][k]>>

\* two sets that give one key different values were put and serialized
C8_Witness ==
    /\ Serialized
    /\ Len(Definition.Dimensions) = 2
    /\ \E k \in DOMAIN context.dimensions[1] :
        /\ k \in DOMAIN context.dimensions[2]
        /\ context.dimensions[1][k] # context.dimensions[2][k]
        /\ Doc.target_values[k] = <<"str", context.dimensions[2][k]>>

\* C12: serialization is deterministic: two contexts equal in namespace,
\* meta, properties, dimension-sets and metrics serialize to the identical
\* output string; the order of the Metrics descriptors and of the keys in
\* each Dimensions entry is fixed by the contents of the context.
C12_SerializationDeterministic ==
    output2 # None => output2[1] = to_string(output[1])

\* C14: a freshly constructed MetricContext has the namespace
\* "aws-embedded-metrics", no properties, no dimension-sets, no metrics and
\* a meta holding only Timestamp; the namespace stays the default until
\* set_namespace is called, and each set_namespace replaces it with its
\* argument, whatever it was before.
C14_DefaultContextAndNamespace ==
    /\ nMut = 0 =>
        /\ context.properties = EmptyMap
        /\ context.dimensions = <<>>
        /\ context.metrics = EmptyMap
        /\ DOMAIN context.meta = {"Timestamp"}
        /\ \E ts \in Timestamps : context.meta["Timestamp"] = <<"num", ts>>
    /\ context.namespace = IF nsLog = <<>> THEN "aws-embedded-metrics"
                                           ELSE nsLog[Len(nsLog)]

\* the namespace was set twice, to different values, among three calls
C14_Witness ==
    /\ Len(nsLog) = 2
    /\ nsLog[1] # nsLog[2]
    /\ nMut = 3
    /\ context.namespace = nsLog[2]

\* no set_namespace among the calls made: the default namespace is kept
C14_WitnessDefault ==
    /\ nsLog = <<>>
    /\ nMut = MaxCalls
    /\ context.namespace = "aws-embedded-metrics"

----------------------------------------------------------------------------
(* The units of the serialized metric descriptors (SpecUnit) *)

\* the unit arguments a caller can write: a variant of Unit, or
\* Unit::default()
UnitExprs ==
    {<<"variant", UnitVariants[j]>> : j \in 1..Len(UnitVariants)}
        \cup {<<"default", "">>}

UnitOf(expr) == IF expr[1] = "default" THEN Unit_default ELSE expr[2]

\* put_metric of a name not yet recorded, with any unit argument
PutMetricUnit ==
    /\ pc = "ctx"
    /\ \E name \in MetricNames \ DOMAIN context.metrics, expr \in UnitExprs :
        /\ context' = MetricContext_put_metric(context, name, 1, UnitOf(expr))
        /\ callLog' = Append(callLog, [name |-> name, value |-> 1,
                                       unit |-> UnitOf(expr), expr |-> expr])
    /\ nMut' = nMut + 1
    /\ UNCHANGED <<pc, written, output, output2, nsLog, iterOrder>>
    /\ UNCHANGED <<loggerVars, osEnv, agentVars>>

NextUnit ==
    \/ PutMetricUnit
    \/ Serialize

SpecUnit == InitCtx /\ [][NextUnit]_vars

\* the strings of the unit table, in the order the table lists them
UnitTable ==
    <<"Seconds", "Microseconds", "Milliseconds", "Bytes", "Kilobytes",
      "Megabytes", "Gigabytes", "Terabytes", "Bits", "Kilobits", "Megabits",
      "Gigabits", "Terabits", "Percent", "Count", "Bytes/Second",
      "Kilobytes/Second", "Megabytes/Second", "Gigabytes/Second",
      "Terabytes/Second", "Bits/Second", "Kilobits/Second",
      "Megabits/Second", "Gigabits/Second", "Terabits/Second",
      "Count/Second", "None">>

\* the call that recorded the metric `name`
CallOf(name) == CallsFor(name)[1]

\* C13: every one of the 27 Unit variants serializes to exactly its string
\* of the unit table, distinct variants serialize to distinct strings, and
\* the default Unit is None.
C13_UnitStrings ==
    Serialized =>
        /\ Len(UnitVariants) = 27
        /\ \A i \in 1..Len(Definition.Metrics) :
            LET d == Definition.Metrics[i]
                expr == CallOf(d.Name).expr
            IN  /\ expr[1] = "variant" =>
                    \E j \in 1..27 :
                        /\ UnitVariants[j] = expr[2]
                        /\ d.Unit = UnitTable[j]
                /\ expr[1] = "default" => d.Unit = "None"
        /\ \A i, j \in 1..Len(Definition.Metrics) :
            LET di == Definition.Metrics[i]
                dj == Definition.Metrics[j]
            IN  (di.Unit = dj.Unit) <=> (CallOf(di.Name).unit = CallOf(dj.Name).unit)

\* a renamed variant and Unit::default() were both serialized
C13_Witness ==
    /\ Serialized
    /\ Len(Definition.Metrics) = 2
    /\ CallOf("foo").expr = <<"variant", "BytesPerSecond">>
    /\ CallOf("bar").expr = <<"default", "">>
    /\ \E i \in 1..2 : Definition.Metrics[i] = [Name |-> "foo", Unit |-> "Bytes/Second"]
    /\ \E i \in 1..2 : Definition.Metrics[i] = [Name |-> "bar", Unit |-> "None"]

----------------------------------------------------------------------------
(* src/config.rs and src/env.rs: the environment detector *)

\* std::env::var(name).ok()
Var(env, name) == IF name \in DOMAIN env THEN Some(env[name]) ELSE None

\* config::get: envy::prefixed("AWS_EMF_").from_iter(vars())
config_get(env) ==
    [log_group_name       |-> Var(env, "AWS_EMF_LOG_GROUP_NAME"),
     log_stream_name      |-> Var(env, "AWS_EMF_LOG_STREAM_NAME"),
     enable_debug_logging |-> Var(env, "AWS_EMF_ENABLE_DEBUG_LOGGING"),
     service_name         |-> Var(env, "AWS_EMF_SERVICE_NAME"),
     service_type         |-> Var(env, "AWS_EMF_SERVICE_TYPE"),
     agent_endpoint       |-> Var(env, "AWS_EMF_AGENT_ENDPOINT")]

\* the process environments of the model
OsEnvs ==
    { EmptyMap,
      [k \in {"AWS_LAMBDA_FUNCTION_NAME"} |-> "fn"],
      [k \in {"AWS_EMF_SERVICE_NAME"} |-> "svc"],
      [k \in {"AWS_LAMBDA_FUNCTION_NAME", "AWS_EMF_SERVICE_NAME"} |->
          IF k = "AWS_EMF_SERVICE_NAME" THEN "svc" ELSE "fn"] }

\* what EC2::fetch may return: the parsed document, an I/O error, a parse error
FetchResults ==
    { [ok |-> TRUE,  val |-> "document"],
      [ok |-> FALSE, val |-> "Io"],
      [ok |-> FALSE, val |-> "Parse"] }

\* the unit struct Lambda
LambdaEnv == [kind |-> "Lambda", config |-> None, metadata |-> None]

\* EC2::new
EC2_new(env) ==
    [kind |-> "EC2", config |-> Some(config_get(env)), metadata |-> None]

\* Vars(crate::config::get())
VarsEnv(env) ==
    [kind |-> "Vars", config |-> Some(config_get(env)), metadata |-> None]

probe_uncached(e, env, fetch) ==
    CASE e.kind = "Vars" ->
            [env |-> e, ok |-> TRUE, fetched |-> None]
      [] e.kind = "Lambda" ->
            [env |-> e, ok |-> "AWS_LAMBDA_FUNCTION_NAME" \in DOMAIN env,
             fetched |-> None]
      [] e.kind = "EC2" ->
            [env |-> [e EXCEPT !.metadata = Some(fetch)],
             ok |-> fetch.ok, fetched |-> Some(fetch)]

\* Env::probe of Vars, Lambda and EC2; `fetch` is what EC2::fetch returns if
\* it is called.  The result: the environment after the call, the boolean,
\* and Some(result of the fetch) when the fetch was issued.
probe(e, env, fetch) ==
    CASE e.kind = "Vars" ->
            [env |-> e, ok |-> TRUE, fetched |-> None]
      [] e.kind = "Lambda" ->
            [env |-> e, ok |-> "AWS_LAMBDA_FUNCTION_NAME" \in DOMAIN env,
             fetched |-> None]
      [] e.kind = "EC2" ->
            IF e.metadata # None
            THEN [env |-> e, ok |-> e.metadata[1].ok, fetched |-> None]
            ELSE [env |-> [e EXCEPT !.metadata = Some(fetch)],
                  ok |-> fetch.ok, fetched |-> Some(fetch)]

potentials_ec2_first(env) == <<EC2_new(env), LambdaEnv>>

\* vec![Box::new(Lambda), Box::new(EC2::new())]
Potentials(env) == <<LambdaEnv, EC2_new(env)>>

\* the loop of Detector::get from the i-th potential on; `ran` lists the
\* probes already run
RECURSIVE ProbeLoop(_, _, _, _, _)
ProbeLoop(potentials, i, env, fetch, ran) ==
    IF i > Len(potentials)
    THEN [env |-> VarsEnv(env), probes |-> ran]
    ELSE LET r == probe(potentials[i], env, fetch)
             log == Append(ran, [kind |-> potentials[i].kind, ok |-> r.ok,
                                 fetched |-> r.fetched])
         IN  IF r.ok THEN [env |-> r.env, probes |-> log]
             ELSE ProbeLoop(potentials, i + 1, env, fetch, log)

\* Detector::get
Detector_get(env, fetch) == ProbeLoop(Potentials(env), 1, env, fetch, <<>>)

----------------------------------------------------------------------------
(* src/log.rs: MetricLogger and metric_scope *)

FlushLine == "metrics logger was flushed"

\* MetricLogger::flush, run `by` the closure or the drop
flush(by, fetch) ==
    /\ LET got == Detector_get(osEnv, fetch)
       IN  /\ lastEnv' = Some(got.env)
           /\ probes' = got.probes
    /\ stdout' = Append(stdout, FlushLine)
    /\ flushLog' = Append(flushLog, [by |-> by, nMut |-> nMut])
    /\ UNCHANGED sinkLog

drop_without_flush(fetch) == UNCHANGED loggerVars

\* impl Drop for MetricLogger
MetricLogger_drop(fetch) == flush("drop", fetch)

\* arguments of the calls the closure makes
ScopeMetricInputs == {<<"foo", 1, "Count">>, <<"foo", 2, "Count">>}
ScopeDimInputs == { << <<"Service", "Aggregator">> >> }
ScopePropInputs == {<<"RequestId", <<"str", "422b1569">> >>}

\* metric_scope has built MetricLogger::default() and is calling f with it
Init ==
    /\ pc = "scope"
    /\ \E ts \in Timestamps : context = MetricContext_default(ts)
    /\ nMut = 0
    /\ callLog = <<>>
    /\ written = <<>>
    /\ output = None
    /\ output2 = None
    /\ nsLog = <<>>
    /\ iterOrder = None
    /\ stdout = <<>>
    /\ flushLog = <<>>
    /\ sinkLog = <<>>
    /\ osEnv \in OsEnvs
    /\ lastEnv = None
    /\ probes = <<>>
    /\ endpointCfg = None
    /\ agent = None
    /\ accepted = <<>>
    /\ wire = <<>>

\* MetricLogger::set_namespace
LoggerSetNamespace ==
    /\ pc = "scope"
    /\ nMut < MaxScopeCalls
    /\ \E ns \in Namespaces :
        /\ context' = MetricContext_set_namespace(context, ns)
        /\ nsLog' = Append(nsLog, ns)
    /\ nMut' = nMut + 1
    /\ UNCHANGED <<pc, callLog, written, output, output2, iterOrder>>
    /\ UNCHANGED <<loggerVars, osEnv, agentVars>>

\* MetricLogger::set_property
LoggerSetProperty ==
    /\ pc = "scope"
    /\ nMut < MaxScopeCalls
    /\ \E p \in ScopePropInputs :
        context' = MetricContext_set_property(context, p[1], p[2])
    /\ nMut' = nMut + 1
    /\ UNCHANGED <<pc, callLog, written, output, output2, nsLog, iterOrder>>
    /\ UNCHANGED <<loggerVars, osEnv, agentVars>>

\* MetricLogger::put_dimensions
LoggerPutDimensions ==
    /\ pc = "scope"
    /\ nMut < MaxScopeCalls
    /\ \E pairs \in ScopeDimInputs :
        /\ context' = MetricContext_put_dimensions(context, DimensionsMacro(pairs))
        /\ written' = Append(written, pairs)
    /\ nMut' = nMut + 1
    /\ UNCHANGED <<pc, callLog, output, output2, nsLog, iterOrder>>
    /\ UNCHANGED <<loggerVars, osEnv, agentVars>>

\* MetricLogger::put_metric
LoggerPutMetric ==
    /\ pc = "scope"
    /\ nMut < MaxScopeCalls
    /\ \E m \in ScopeMetricInputs :
        /\ context' = MetricContext_put_metric(context, m[1], m[2], m[3])
        /\ callLog' = Append(callLog, [name |-> m[1], value |-> m[2], unit |-> m[3]])
    /\ nMut' = nMut + 1
    /\ UNCHANGED <<pc, written, output, output2, nsLog, iterOrder>>
    /\ UNCHANGED <<loggerVars, osEnv, agentVars>>

\* the closure calls MetricLogger::flush
LoggerFlush ==
    /\ pc = "scope"
    /\ Len(flushLog) < MaxExplicitFlush
    /\ \E fetch \in FetchResults : flush("closure", fetch)
    /\ UNCHANGED <<pc, ctxVars, osEnv, agentVars>>

\* f returns: the temporary MetricLogger is dropped at the end of the call
ScopeReturn ==
    /\ pc = "scope"
    /\ \E fetch \in FetchResults : MetricLogger_drop(fetch)
    /\ pc' = "returned"
    /\ UNCHANGED <<ctxVars, osEnv, agentVars>>

\* f panics: the temporary MetricLogger is dropped while unwinding
ScopeUnwind ==
    /\ pc = "scope"
    /\ \E fetch \in FetchResults : MetricLogger_drop(fetch)
    /\ pc' = "unwound"
    /\ UNCHANGED <<ctxVars, osEnv, agentVars>>

Next ==
    \/ LoggerSetNamespace
    \/ LoggerSetProperty
    \/ LoggerPutDimensions
    \/ LoggerPutMetric
    \/ LoggerFlush
    \/ ScopeReturn
    \/ ScopeUnwind

Spec == Init /\ [][Next]_vars

----------------------------------------------------------------------------
(* Properties of the scoped logger and the detector (Spec) *)

ScopeEnded == pc \in {"returned", "unwound"}

\* the closure called flush itself
ClosureFlushed == \E i \in 1..Len(flushLog) : flushLog[i].by = "closure"

\* C1: when f does not call flush, the logger handed to f is flushed
\* exactly once, after every mutation f made, whether f returns or unwinds;
\* it is not flushed while f still runs.
C1_FlushedOnceAtScopeExit ==
    ~ClosureFlushed =>
        /\ pc = "scope" => flushLog = <<>> /\ stdout = <<>>
        /\ ScopeEnded =>
            /\ Len(flushLog) = 1
            /\ flushLog[1].by = "drop"
            /\ flushLog[1].nMut = nMut
            /\ stdout = <<FlushLine>>

\* f made its calls and panicked, and the logger was flushed by the drop
C1_Witness ==
    /\ pc = "unwound"
    /\ ~ClosureFlushed
    /\ nMut = MaxScopeCalls
    /\ Len(flushLog) = 1

\* C2: flush is guarded against running twice: when f called flush
\* explicitly and the logger is then dropped at scope exit, the effect of
\* flush happens at most once for that logger.
C2_FlushEffectAtMostOnce ==
    (ScopeEnded /\ ClosureFlushed) => Len(stdout) <= 1

\* C3: flush obtains the environment, lets it configure the context,
\* serializes the context and hands the result to the sink, so that once
\* a logger that recorded a metric was flushed at scope exit, the sink has
\* received a payload holding the namespace and every metric, dimension
\* key and property recorded in the scope.
C3_FlushDeliversContext ==
    (ScopeEnded /\ DOMAIN context.metrics # {}) =>
        /\ lastEnv # None
        /\ sinkLog # <<>>
        /\ LET doc == sinkLog[Len(sinkLog)]
           IN  /\ doc.aws.CloudWatchMetrics[1].Namespace = context.namespace
               /\ (DOMAIN context.metrics) \cup (DOMAIN context.properties)
                     \cup DimensionKeySet \subseteq DOMAIN doc.target_values
               /\ \A name \in DOMAIN context.metrics :
                     doc.target_values[name] =
                         MetricTargetValue(context.metrics[name].values)

\* C10: Detector::get probes Lambda, then EC2, and returns the first whose
\* probe succeeds: Lambda whenever its probe succeeds (the EC2 probe is then
\* not run), EC2 only when the Lambda probe failed and the EC2 probe
\* succeeded, and otherwise the fallback built from the process
\* configuration; it always returns an environment.
C10_DetectorPriority ==
    lastEnv # None =>
        LET e == lastEnv[1]
            lambda == "AWS_LAMBDA_FUNCTION_NAME" \in DOMAIN osEnv
        IN  /\ e.kind \in {"Lambda", "EC2", "Vars"}
            /\ lambda =>
                /\ e = LambdaEnv
                /\ probes = <<[kind |-> "Lambda", ok |-> TRUE, fetched |-> None]>>
            /\ ~lambda =>
                /\ Len(probes) = 2
                /\ probes[1] = [kind |-> "Lambda", ok |-> FALSE, fetched |-> None]
                /\ probes[2].kind = "EC2"
                /\ probes[2].fetched # None
                /\ probes[2].ok = probes[2].fetched[1].ok
                /\ probes[2].ok =>
                      e = [EC2_new(osEnv) EXCEPT !.metadata = probes[2].fetched]
                /\ ~probes[2].ok =>
                      /\ e.kind = "Vars"
                      /\ e.config = Some(config_get(osEnv))

\* the Lambda probe failed, the EC2 probe succeeded and EC2 was returned
C10_Witness ==
    /\ lastEnv # None
    /\ lastEnv[1].kind = "EC2"
    /\ Len(probes) = 2
    /\ probes[2].ok

\* with the Lambda variable set, Lambda was returned without an EC2 probe
C10_WitnessLambda ==
    /\ lastEnv # None
    /\ lastEnv[1].kind = "Lambda"
    /\ Len(probes) = 1

\* both probes failed and the fallback was returned
C10_WitnessFallback ==
    /\ lastEnv # None
    /\ lastEnv[1].kind = "Vars"
    /\ lastEnv[1].config[1].service_name = Some("svc")

----------------------------------------------------------------------------
(* src/env.rs: one EC2 environment, probed and asked to configure (SpecEC2) *)

\* what EC2::fetch can return: the results of the detector model, and a
\* second identity document
EC2FetchResults == FetchResults \cup {[ok |-> TRUE, val |-> "document2"]}

\* struct EC2MetadataResponse deserialized from an identity document
EC2MetadataResponse(val) ==
    IF val = "document"
    THEN [image_id          |-> "ami-1",
          availability_zone |-> "us-east-1a",
          private_ip        |-> "10.0.0.1",
          instance_id       |-> "i-1",
          instance_type     |-> "t2.micro"]
    ELSE [image_id          |-> "ami-2",
          availability_zone |-> "eu-west-1b",
          private_ip        |-> "10.0.0.2",
          instance_id       |-> "i-2",
          instance_type     |-> "m5.large"]

\* <EC2 as Env>::configure
EC2_configure(e, ctx) ==
    IF e.metadata # None /\ e.metadata[1].ok
    THEN LET metadata == EC2MetadataResponse(e.metadata[1].val)
             c1 == MetricContext_set_property(ctx, "imageId", <<"str", metadata.image_id>>)
             c2 == MetricContext_set_property(c1, "instanceId", <<"str", metadata.instance_id>>)
             c3 == MetricContext_set_property(c2, "instanceType", <<"str", metadata.instance_type>>)
             c4 == MetricContext_set_property(c3, "privateIP", <<"str", metadata.private_ip>>)
         IN  MetricContext_set_property(c4, "availabilityZone",
                                        <<"str", metadata.availability_zone>>)
    ELSE ctx

\* EC2::new() has run in some process environment; the context is fresh
InitEC2 ==
    /\ pc = "ec2"
    /\ context = MetricContext_default(0)
    /\ nMut = 0
    /\ callLog = <<>>
    /\ written = <<>>
    /\ output = None
    /\ output2 = None
    /\ nsLog = <<>>
    /\ iterOrder = None
    /\ stdout = <<>>
    /\ flushLog = <<>>
    /\ sinkLog = <<>>
    /\ osEnv \in OsEnvs
    /\ lastEnv = Some(EC2_new(osEnv))
    /\ probes = <<>>
    /\ endpointCfg = None
    /\ agent = None
    /\ accepted = <<>>
    /\ wire = <<>>

\* ec2.probe(); the fetch, if issued, returns any of its results
EC2Probe ==
    /\ pc = "ec2"
    /\ Len(probes) < MaxProbes
    /\ \E fetch \in EC2FetchResults :
        LET r == probe(lastEnv[1], osEnv, fetch)
        IN  /\ lastEnv' = Some(r.env)
            /\ probes' = Append(probes, [kind |-> "EC2", ok |-> r.ok,
                                         fetched |-> r.fetched])
    /\ UNCHANGED <<pc, ctxVars, stdout, flushLog, sinkLog, osEnv, agentVars>>

\* ec2.configure(&mut context); callLog records the stored result the call
\* found
EC2Configure ==
    /\ pc = "ec2"
    /\ Len(callLog) < MaxConfigure
    /\ context' = EC2_configure(lastEnv[1], context)
    /\ callLog' = Append(callLog, [metadata |-> lastEnv[1].metadata])
    /\ nMut' = nMut + 1
    /\ UNCHANGED <<pc, written, output, output2, nsLog, iterOrder>>
    /\ UNCHANGED <<loggerVars, osEnv, agentVars>>

NextEC2 ==
    \/ EC2Probe
    \/ EC2Configure

SpecEC2 == InitEC2 /\ [][NextEC2]_vars

\* the probes that issued the metadata fetch
Fetching == {i \in 1..Len(probes) : probes[i].fetched # None}

\* a configure call found a successful stored result
ConfiguredWithSuccess ==
    \E i \in 1..Len(callLog) :
        callLog[i].metadata # None /\ callLog[i].metadata[1].ok

IdentityProperties ==
    {"imageId", "instanceId", "instanceType", "privateIP", "availabilityZone"}

\* C15: on one EC2 environment the metadata fetch is issued at most once
\* over any sequence of probe() calls: the first probe fetches and stores
\* the result, success or failure, and every later probe returns the same
\* boolean without fetching; configure injects the five identity properties
\* only when the stored result is a success.
C15_FetchAtMostOnce ==
    /\ Cardinality(Fetching) <= 1
    /\ probes = <<>> => lastEnv[1].metadata = None
    /\ probes # <<>> =>
        /\ Fetching = {1}
        /\ lastEnv[1].metadata = probes[1].fetched
        /\ \A i \in 1..Len(probes) : probes[i].ok = probes[1].fetched[1].ok
    /\ DOMAIN context.properties =
            IF ConfiguredWithSuccess THEN IdentityProperties ELSE {}
    /\ ConfiguredWithSuccess =>
            LET metadata == EC2MetadataResponse(probes[1].fetched[1].val)
            IN  context.properties =
                    [k \in IdentityProperties |->
                        <<"str", CASE k = "imageId"      -> metadata.image_id
                                   [] k = "instanceId"   -> metadata.instance_id
                                   [] k = "instanceType" -> metadata.instance_type
                                   [] k = "privateIP"    -> metadata.private_ip
                                   [] OTHER              -> metadata.availability_zone>>]

\* three probes of which the first fetched successfully; a configure before
\* the first probe injected nothing, one after it the five properties
C15_Witness ==
    /\ Len(probes) = MaxProbes
    /\ probes[1].fetched # None
    /\ probes[1].ok
    /\ Len(callLog) = 2
    /\ callLog[1].metadata = None
    /\ callLog[2].metadata # None
    /\ DOMAIN context.properties = IdentityProperties

\* the first fetch failed: later probes return false without fetching and
\* configure injects nothing
C15_WitnessFailed ==
    /\ Len(probes) = MaxProbes
    /\ probes[1].fetched # None
    /\ ~probes[1].ok
    /\ ~probes[MaxProbes].ok
    /\ callLog # <<>>
    /\ callLog[Len(callLog)].metadata # None
    /\ context.properties = EmptyMap

----------------------------------------------------------------------------
(* src/sink.rs: the Agent sink *)

U16_MAX == 65535

\* An endpoint string is given by its lexical parts: the text before "://"
\* ("" when the string has no "://"), the host text ("" when empty) and the
\* text after the last ":" ("" when the string has no ":port").
EndpointSchemes == {"tcp", "udp", "ftp", "other", "http", ""}
EndpointHosts == {"0.0.0.0", "localhost", ""}
EndpointPorts == {"7890", "25888", "80", "70000", "port", ""}

EndpointStrings ==
    [scheme : EndpointSchemes, host : EndpointHosts, port : EndpointPorts]

\* the decimal value of a port text; -1 when it is not a number
PortValue(text) ==
    CASE text = "7890"  -> 7890
      [] text = "25888" -> 25888
      [] text = "80"    -> 80
      [] text = "70000" -> 70000
      [] OTHER          -> -1

\* the default port of a scheme the URL standard calls special; -1 otherwise
SpecialPort(scheme) == IF scheme = "http" THEN 80 ELSE -1

\* endpoint.parse::<Url>() with uri.scheme(), uri.host(), uri.port():
\* a string without a scheme, with a port that is no u16, or with a port
\* (or a special scheme) and an empty host does not parse; port() is None
\* when no port is written or it is the default port of the scheme
Url_parse(endpoint) ==
    LET port == PortValue(endpoint.port)
        bad == \/ endpoint.scheme = ""
               \/ endpoint.port # "" /\ (port < 0 \/ port > U16_MAX)
               \/ endpoint.host = "" /\ endpoint.port # ""
               \/ endpoint.host = "" /\ SpecialPort(endpoint.scheme) >= 0
    IN  IF bad THEN [ok |-> FALSE, scheme |-> "", host |-> None, port |-> None]
        ELSE [ok     |-> TRUE,
              scheme |-> endpoint.scheme,
              host   |-> IF endpoint.host = "" THEN None ELSE Some(endpoint.host),
              port   |-> IF endpoint.port = "" \/ port = SpecialPort(endpoint.scheme)
                         THEN None ELSE Some(port)]

Tcp(host, port) == [kind |-> "Tcp", host |-> host, port |-> port]
Udp(host, port) == [kind |-> "Udp", host |-> host, port |-> port]

parse_any_scheme(endpoint) ==
    LET uri == Url_parse(endpoint)
    IN  IF ~uri.ok \/ uri.host = None \/ uri.port = None THEN None
        ELSE IF uri.scheme = "udp" THEN Some(Udp(uri.host[1], uri.port[1]))
        ELSE Some(Tcp(uri.host[1], uri.port[1]))

\* Agent::parse
Agent_parse(endpoint) ==
    LET uri == Url_parse(endpoint)
    IN  IF ~uri.ok THEN None
        ELSE IF uri.host = None \/ uri.port = None THEN None
        ELSE CASE uri.scheme = "tcp" -> Some(Tcp(uri.host[1], uri.port[1]))
               [] uri.scheme = "udp" -> Some(Udp(uri.host[1], uri.port[1]))
               [] OTHER -> None

\* Endpoint::Tcp("0.0.0.0".into(), 25888)
DefaultEndpoint == Tcp("0.0.0.0", DEFAULT_AGENT_PORT)

\* config_endpoint.and_then(Self::parse)
ParsedConfig(config_endpoint) ==
    IF config_endpoint = None THEN None ELSE Agent_parse(config_endpoint[1])

\* Agent::create; `connected` tells whether ep.try_into() succeeded.  The
\* result is Ok(agent) or the transport's io::Error.
Agent_create(log_group_name, log_stream_name, config_endpoint, connected) ==
    LET parsed == ParsedConfig(config_endpoint)
        ep == IF parsed = None THEN DefaultEndpoint ELSE parsed[1]
    IN  [ok              |-> connected,
         error           |-> IF connected THEN None ELSE Some("io::Error"),
         log_group_name  |-> log_group_name,
         log_stream_name |-> log_stream_name,
         endpoint        |-> ep]

LogGroupNames == {"Unknown-metrics"}
LogStreamNames == {None, Some("stream")}

InitAgent ==
    /\ pc = "agent"
    /\ endpointCfg \in {None} \cup {Some(e) : e \in EndpointStrings}
    /\ agent = None
    /\ accepted = <<>>
    /\ wire = <<>>
    /\ context = MetricContext_default(0)
    /\ nMut = 0
    /\ callLog = <<>>
    /\ written = <<>>
    /\ output = None
    /\ output2 = None
    /\ nsLog = <<>>
    /\ iterOrder = None
    /\ stdout = <<>>
    /\ flushLog = <<>>
    /\ sinkLog = <<>>
    /\ osEnv = EmptyMap
    /\ lastEnv = None
    /\ probes = <<>>

\* Transport::send: one send_to or write_all on the transport, whose
\* Result `result` is dropped
Transport_send(sent, transport, bytes, result) ==
    Append(sent, [transport |-> transport, bytes |-> bytes, ok |-> result])

accept_without_stream_name(a, ctx, it) ==
    LET editable ==
            [ctx EXCEPT !.meta = Insert(@, "LogGroupName", <<"str", a.log_group_name>>)]
    IN  to_string(Log_serialize(editable, it)) \o <<"\n">>

\* <Agent as Sink>::accept up to the call of Transport::send: the bytes
\* handed to it
Agent_accept(a, ctx, it) ==
    LET withGroup ==
            [ctx EXCEPT !.meta = Insert(@, "LogGroupName", <<"str", a.log_group_name>>)]
        editable ==
            IF a.log_stream_name # None
            THEN [withGroup EXCEPT
                    !.meta = Insert(@, "LogStreamName", <<"str", a.log_stream_name[1]>>)]
            ELSE withGroup
    IN  to_string(Log_serialize(editable, it)) \o <<"\n">>

\* the contexts handed to accept, each with the dimensions! invocations
\* that built its dimension-sets
AcceptInputs ==
    LET pairs == << <<"bar", "2">>, <<"baz", "3">> >>
        c0 == MetricContext_default(1700)
        c1 == MetricContext_put_metric(c0, "foo", 1, "Count")
        c2 == MetricContext_put_metric(c1, "bar", 2, "BytesPerSecond")
        c3 == MetricContext_put_dimensions(c2, DimensionsMacro(pairs))
    IN  { [context |-> c0, written |-> <<>>],
          [context |-> c3, written |-> <<pairs>>] }

AgentCreate ==
    /\ pc = "agent"
    /\ \E group \in LogGroupNames, stream \in LogStreamNames, connected \in BOOLEAN :
        agent' = Some(Agent_create(group, stream, endpointCfg, connected))
    /\ pc' = "created"
    /\ UNCHANGED <<endpointCfg, accepted, wire, ctxVars, loggerVars, osEnv>>

\* agent.accept(context) on the Agent that create returned; the write on
\* the transport succeeds or fails
AgentAccept ==
    /\ pc = "created"
    /\ agent[1].ok
    /\ Len(accepted) < MaxAccepts
    /\ \E in \in AcceptInputs, result \in BOOLEAN :
        \E d \in OrderChoices(in.written), m \in Perms(DOMAIN in.context.metrics) :
            LET it == [dims |-> d, metrics |-> m]
            IN  /\ accepted' = Append(accepted, [context |-> in.context, it |-> it])
                /\ wire' = Transport_send(wire, agent[1].endpoint,
                                          Agent_accept(agent[1], in.context, it), result)
    /\ UNCHANGED <<pc, endpointCfg, agent, ctxVars, loggerVars, osEnv>>

NextAgent ==
    \/ AgentCreate
    \/ AgentAccept

SpecAgent == InitAgent /\ [][NextAgent]_vars

\* the endpoint string has the shape scheme://host:port with a port that
\* is a u16
WellFormed(e) ==
    /\ e.host # ""
    /\ e.port \in {"7890", "25888", "80"}

\* what the endpoint configuration is said to resolve to
ExpectedParse(e) ==
    IF e.scheme = "tcp" /\ WellFormed(e)
    THEN Some([kind |-> "Tcp", host |-> e.host, port |-> PortValue(e.port)])
    ELSE IF e.scheme = "udp" /\ WellFormed(e)
    THEN Some([kind |-> "Udp", host |-> e.host, port |-> PortValue(e.port)])
    ELSE None

\* C9: Agent::parse gives Tcp(host, port) for tcp://host:port, Udp(host,
\* port) for udp://host:port and none for any other scheme and for a string
\* that does not parse or lacks host or port; Agent::create uses the parsed
\* endpoint when there is one and else Tcp("0.0.0.0", 25888), and the only
\* error it returns is the transport's.
C9_EndpointResolution ==
    /\ endpointCfg # None => Agent_parse(endpointCfg[1]) = ExpectedParse(endpointCfg[1])
    /\ agent # None =>
        /\ agent[1].endpoint =
              IF endpointCfg # None /\ ExpectedParse(endpointCfg[1]) # None
              THEN ExpectedParse(endpointCfg[1])[1]
              ELSE [kind |-> "Tcp", host |-> "0.0.0.0", port |-> 25888]
        /\ agent[1].ok \/ agent[1].error = Some("io::Error")

\* an agent was created from an endpoint of another scheme, on the default
C9_Witness ==
    /\ pc = "created"
    /\ endpointCfg = Some([scheme |-> "ftp", host |-> "0.0.0.0", port |-> "7890"])
    /\ agent[1].ok
    /\ agent[1].endpoint = DefaultEndpoint

\* an agent was created from udp://0.0.0.0:7890
C9_WitnessUdp ==
    /\ pc = "created"
    /\ endpointCfg = Some([scheme |-> "udp", host |-> "0.0.0.0", port |-> "7890"])
    /\ agent[1].endpoint = Udp("0.0.0.0", 7890)

\* the meta of a context accepted by the agent, as it is said to be sent
ExpectedMeta(ctx) ==
    LET stream == agent[1].log_stream_name
        added == {"LogGroupName"} \cup
                    (IF stream # None THEN {"LogStreamName"} ELSE {})
    IN  [k \in DOMAIN ctx.meta \cup added |->
            CASE k = "LogGroupName"  -> <<"str", agent[1].log_group_name>>
              [] k = "LogStreamName" -> <<"str", stream[1]>>
              [] OTHER               -> ctx.meta[k]]

\* how many of the pieces of a text are `piece`
Count(text, piece) == Cardinality({j \in 1..Len(text) : text[j] = piece})

\* C11: every Agent::accept(context) makes exactly one write attempt, on
\* the transport opened at construction; the bytes written are the
\* serialization of the context with LogGroupName (always) and
\* LogStreamName (only when a stream name is configured) inserted into its
\* meta, followed by one newline; a failed write is swallowed and not
\* retried, and later accepts still make their own attempt.
C11_AcceptWritesOnce ==
    /\ Len(wire) = Len(accepted)
    /\ wire # <<>> => pc = "created" /\ agent[1].ok
    /\ \A i \in 1..Len(wire) :
        LET ctx == accepted[i].context
            sent == wire[i].bytes
            text == to_string(Log_serialize([ctx EXCEPT !.meta = ExpectedMeta(ctx)],
                                            accepted[i].it))
        IN  /\ wire[i].transport = agent[1].endpoint
            /\ sent = Append(text, "\n")
            /\ Count(sent, "\n") = 1
            /\ Count(sent, "LogGroupName") = 1
            /\ Count(sent, "LogStreamName") =
                    IF agent[1].log_stream_name # None THEN 1 ELSE 0

\* with a stream name configured, the first write failed and a second
\* accept made its own write, which succeeded
C11_Witness ==
    /\ Len(wire) = 2
    /\ agent[1].log_stream_name = Some("stream")
    /\ ~wire[1].ok
    /\ wire[2].ok
    /\ DOMAIN accepted[2].context.metrics = {"foo", "bar"}
    /\ Count(wire[2].bytes, "LogStreamName") = 1

\* without a stream name, the bytes written carry LogGroupName only
C11_WitnessNoStream ==
    /\ Len(wire) = 1
    /\ agent[1].log_stream_name = None
    /\ Count(wire[1].bytes, "LogGroupName") = 1
    /\ Count(wire[1].bytes, "LogStreamName") = 0

=============================================================================
